---------------------------- MODULE Spec2Model ----------------------------
(***************************************************************************)
(* State-machine model of the counterfactual-frontend React application:   *)
(* the CounterfactualDemo orchestrator (input / result / busy / error /    *)
(* modal state and the two sequential HTTP calls of handleAnalyze), the    *)
(* in-place sort of BranchPointHighlighter, the d3 force simulation life    *)
(* cycle of LogicTreeVisualization (effect, cleanup, drag), and what the   *)
(* three views of the analysis grid draw.                                  *)
(*                                                                         *)
(* One action is one event-loop task: a DOM event handler, or the          *)
(* continuation of handleAnalyze after an awaited HTTP call settles,       *)
(* together with the React render and effects that the state updates of    *)
(* that task cause (React commits them before the next event is handled).  *)
(*                                                                         *)
(* Numbers: scores in [0,1] are held as integer percentages (0.7 -> 70).   *)
(*                                                                         *)
(* Specifications: Spec drives the application through its user interface  *)
(* with one pointer; SpecHandler also calls handleAnalyze with blank       *)
(* input; FairSpec lets every HTTP call settle; SpecGrid answers with      *)
(* results whose lists have ties, shared categories and unresolved         *)
(* references; SpecDrag adds pointer moves and several touches on a node.  *)
(***************************************************************************)
EXTENDS Integers, Sequences, FiniteSets, TLC

(***************************************************************************)
(* Bounds of the model.                                                    *)
(***************************************************************************)
\* accepted submissions (handleAnalyze runs that reach the network) per behaviour
MaxSubmissions == 3
\* length of the texts the user can type into the textarea
MaxInputLen == 1
\* length of the branch_points list of a backend response
MaxBranchPoints == 2
\* nodes held by a pointer at the same time
MaxPointers == 1
\* touches that can hold the same node at the same time
MaxTouches == 2

(***************************************************************************)
(* Values.                                                                 *)
(***************************************************************************)
\* JavaScript null / undefined where an object is expected
Null == [isNull |-> TRUE]
\* JavaScript null where a string is expected (the error state)
NoError == "<null>"
\* JavaScript undefined where a string is expected (a missing detail field)
NoDetail == "<undefined>"

ValidationMessage == "Please enter a legal narrative to analyze"
GenericFailure == "Analysis failed. Please try again."
BackendDetail == "CIR extraction unavailable"

\* characters the user can type; " " is whitespace
Chars == {" ", "x"}
\* the fixed sample narrative of loadSampleCase, abbreviated to its first words
sampleNarrative == <<"I", " ", "w", "a", "s">>

Texts == UNION {[1..n -> Chars] : n \in 0..MaxInputLen}

RECURSIVE TrimStart(_)
TrimStart(s) ==
    IF s = <<>> THEN <<>>
    ELSE IF Head(s) = " " THEN TrimStart(Tail(s)) ELSE s

RECURSIVE TrimEnd(_)
TrimEnd(s) ==
    IF s = <<>> THEN <<>>
    ELSE IF s[Len(s)] = " " THEN TrimEnd(SubSeq(s, 1, Len(s) - 1)) ELSE s

\* String.prototype.trim
Trim(s) == TrimEnd(TrimStart(s))

\* !inputText.trim() : the empty string is the only falsy string
IsBlank(s) == Trim(s) = <<>>

(***************************************************************************)
(* Backend payloads.                                                       *)
(***************************************************************************)
BranchPool ==
    { [branch_id |-> "b1", node_id |-> "n1", branch_type |-> "procedural",
       criticality_score |-> 50],
      [branch_id |-> "b2", node_id |-> "n2", branch_type |-> "evidence",
       criticality_score |-> 90] }

\* lists without repetition of at most MaxBranchPoints pooled branch points
BranchLists ==
    { s \in UNION {[1..n -> BranchPool] : n \in 0..MaxBranchPoints} :
        \A i, j \in DOMAIN s : i # j => s[i] # s[j] }

\* the dependencies and cascades lists of a response: both empty or both
\* holding one entry
EdgeLists ==
    { [dependencies |-> <<>>, cascades |-> <<>>],
      [dependencies |->
          << [dependency_id |-> "d1", source_node_id |-> "n1",
              target_node_id |-> "n2", strength |-> 80,
              cascade_potential |-> TRUE] >>,
       cascades |->
          << [cascade_id |-> "c1", initiating_branch_id |-> "b1",
              severity_score |-> 100, preventable |-> TRUE] >>] }

\* attorney_referral: present with either flag, or missing from the payload
Referrals == { [triggered |-> TRUE], [triggered |-> FALSE], Null }

\* bodies the analyze endpoint can answer with: AnalysisResult objects, well
\* formed or lacking attorney_referral, and a null body
AnalysisBodies ==
    { [branch_points |-> bps, dependencies |-> el.dependencies,
       cascades |-> el.cascades, attorney_referral |-> ar] :
        bps \in BranchLists, el \in EdgeLists, ar \in Referrals }
    \cup {Null}

\* branch points for the analysis grid: b1 and b3 share a category, b2 and b3
\* share a criticality score
GridBranchPool ==
    BranchPool \cup
    { [branch_id |-> "b3", node_id |-> "n3", branch_type |-> "procedural",
       criticality_score |-> 90] }

\* every list without repetition of pooled branch points, in every order
GridBranchLists ==
    { s \in UNION {[1..n -> GridBranchPool] :
                      n \in 0..Cardinality(GridBranchPool)} :
        \A i, j \in DOMAIN s : i # j => s[i] # s[j] }

\* dependencies: d1 joins n1 and n2; d2 names a source and d3 a target that
\* is no branch point's node_id
GridDependencies ==
    [d1 |-> [dependency_id |-> "d1", source_node_id |-> "n1",
             target_node_id |-> "n2", strength |-> 80,
             cascade_potential |-> TRUE],
     d2 |-> [dependency_id |-> "d2", source_node_id |-> "n9",
             target_node_id |-> "n2", strength |-> 50,
             cascade_potential |-> FALSE],
     d3 |-> [dependency_id |-> "d3", source_node_id |-> "n3",
             target_node_id |-> "n8", strength |-> 20,
             cascade_potential |-> FALSE]]

\* cascades: c1 and c2 start at b1, c3 at b3, c4 at no branch point
GridCascades ==
    [c1 |-> [cascade_id |-> "c1", initiating_branch_id |-> "b1",
             severity_score |-> 100, preventable |-> TRUE],
     c2 |-> [cascade_id |-> "c2", initiating_branch_id |-> "b1",
             severity_score |-> 40, preventable |-> FALSE],
     c3 |-> [cascade_id |-> "c3", initiating_branch_id |-> "b3",
             severity_score |-> 20, preventable |-> TRUE],
     c4 |-> [cascade_id |-> "c4", initiating_branch_id |-> "b7",
             severity_score |-> 60, preventable |-> FALSE]]

\* the dependencies and cascades lists of a response for the analysis grid
GridEdgeLists ==
    { [dependencies |-> <<>>, cascades |-> <<>>],
      [dependencies |-> <<GridDependencies.d1>>,
       cascades |-> <<GridCascades.c1>>],
      [dependencies |-> <<GridDependencies.d2, GridDependencies.d1>>,
       cascades |-> <<GridCascades.c2, GridCascades.c1, GridCascades.c3>>],
      [dependencies |-> <<GridDependencies.d3>>,
       cascades |-> <<GridCascades.c4, GridCascades.c2>>] }

\* well-formed AnalysisResult bodies for the analysis grid
GridBodies ==
    { [branch_points |-> bps, dependencies |-> el.dependencies,
       cascades |-> el.cascades, attorney_referral |-> [triggered |-> FALSE]] :
        bps \in GridBranchLists, el \in GridEdgeLists }

\* opaque bodies the extract endpoint can answer with
CirGraphs == {[cir_id |-> "g1"], [cir_id |-> "g2"]}

\* what a rejected axios call carries: no response at all (transport error),
\* or a response whose data.detail is absent, empty or a message
Errors ==
    { [response |-> Null] }
    \cup { [response |-> [data |-> [detail |-> d]]] :
              d \in {NoDetail, "", BackendDetail} }

\* the TypeError raised by reading a property of undefined / null
TypeError == [response |-> Null]


(***************************************************************************)
(* Pure helpers of the orchestrator.                                       *)
(***************************************************************************)
\* body of the first POST (extract)
ExtractRequest(narrative) ==
    [url |-> "/api/cir/extract",
     body |-> [narrative |-> narrative,
               options |-> [extract_legal_implications |-> TRUE,
                            include_confidence |-> TRUE]]]

\* variant: the whole axios response is sent instead of its data
AnalyzeRequestWholeResponse(cirResponse) ==
    [url |-> "/api/counterfactual/analyze",
     body |-> [cir_graph |-> cirResponse,
               options |-> [include_visualizations |-> TRUE,
                            max_branch_points |-> 10,
                            max_cascades |-> 5,
                            complexity_threshold |-> 70]]]

\* body of the second POST (analyze), built from the first call's axios response
AnalyzeRequest(cirResponse) ==
    [url |-> "/api/counterfactual/analyze",
     body |-> [cir_graph |-> cirResponse.data,
               options |-> [include_visualizations |-> TRUE,
                            max_branch_points |-> 10,
                            max_cascades |-> 5,
                            complexity_threshold |-> 70]]]

\* err.response?.data?.detail || 'Analysis failed. Please try again.'
ErrorMessage(err) ==
    IF err.response = Null THEN GenericFailure
    ELSE IF err.response.data.detail \in {NoDetail, ""} THEN GenericFailure
    ELSE err.response.data.detail

(***************************************************************************)
(* BranchPointHighlighter: Array.prototype.sort with the comparator        *)
(* (a, b) => b.criticality_score - a.criticality_score.  The sort is       *)
(* stable and works in place, on the array object held in `analysis`.      *)
(***************************************************************************)
\* variant: an element is put before the elements of equal score
RECURSIVE InsertByCriticalityBeforeTies(_, _)
InsertByCriticalityBeforeTies(bp, sorted) ==
    IF sorted = <<>> THEN <<bp>>
    ELSE IF Head(sorted).criticality_score > bp.criticality_score
         THEN <<Head(sorted)>> \o InsertByCriticalityBeforeTies(bp, Tail(sorted))
         ELSE <<bp>> \o sorted

RECURSIVE InsertByCriticality(_, _)
InsertByCriticality(bp, sorted) ==
    IF sorted = <<>> THEN <<bp>>
    ELSE IF Head(sorted).criticality_score >= bp.criticality_score
         THEN <<Head(sorted)>> \o InsertByCriticality(bp, Tail(sorted))
         ELSE <<bp>> \o sorted

RECURSIVE SortByCriticality(_)
SortByCriticality(bps) ==
    IF bps = <<>> THEN <<>>
    ELSE InsertByCriticality(bps[Len(bps)],
                             SortByCriticality(SubSeq(bps, 1, Len(bps) - 1)))

\* the array the component leaves behind in the caller's object after a render
HighlighterRender(bps) ==
    IF Len(bps) = 0 THEN bps ELSE SortByCriticality(bps)

\* what the component returns: the empty-state paragraph, or one
\* branch-point-item per element of the sorted array, keyed by branch_id
HighlighterItems(bps) ==
    IF Len(bps) = 0
    THEN [noBranches |-> TRUE, items |-> <<>>]
    ELSE [noBranches |-> FALSE,
          items |-> [i \in DOMAIN bps |->
                        [key |-> SortByCriticality(bps)[i].branch_id,
                         branch_type |-> SortByCriticality(bps)[i].branch_type,
                         criticality_score |->
                             SortByCriticality(bps)[i].criticality_score]]]

\* the held result after a render of the results section: its branch_points
\* array has been through BranchPointHighlighter
Rendered(a) ==
    IF a = Null THEN Null
    ELSE [a EXCEPT !.branch_points = HighlighterRender(@)]

(***************************************************************************)
(* State.                                                                  *)
(***************************************************************************)
VARIABLES
    \* CounterfactualDemo useState cells
    inputText, analysis, loading, error, showAttorneyModal,
    \* whether the React tree is still mounted (an exception thrown while
    \* rendering unmounts it)
    mounted,
    \* handleAnalyze runs suspended at an await: id -> continuation record
    inflight,
    \* accepted submissions so far
    nSub,
    \* summary of the most recently completed submission
    done,
    \* body of the analyze response most recently handed to setAnalysis, as it
    \* arrived, and body of the most recent submission that ended without error
    received, lastOk,
    \* LogicTreeVisualization: the d3 simulations created so far, the
    \* simulation whose nodes are in the svg (0: none), the simulation the
    \* registered effect cleanup will stop (0: none), the node ids of the
    \* circles in the svg, active drag gestures, the lines in the svg, the
    \* node data whose fx / fy are set and to what
    sims, svgSim, treeCleanup, svgNodes, drags, svgLinks, pins,
    \* RiskHeatmap: the cells in its svg; BranchPointHighlighter: what its
    \* last render returned (Null while the results section is not rendered)
    heatCells, highlighted

reactVars == <<inputText, analysis, loading, error, showAttorneyModal, mounted>>
netVars == <<inflight, nSub, done>>
histVars == <<received, lastOk>>
treeVars == <<sims, svgSim, treeCleanup, svgNodes, drags, svgLinks, pins>>
viewVars == <<heatCells, highlighted>>
vars == <<reactVars, netVars, histVars, treeVars, viewVars>>

Submissions == 1..MaxSubmissions

\* a handleAnalyze run that is not suspended at an await
Idle == [pc |-> "idle", request |-> Null, cirResponse |-> Null,
         calls |-> <<>>, extractReply |-> Null]

NoneDone == [outcome |-> "none", calls |-> <<>>, extractReply |-> Null,
             request |-> Null]

Init ==
    /\ inputText = <<>>
    /\ analysis = Null
    /\ loading = FALSE
    /\ error = NoError
    /\ showAttorneyModal = FALSE
    /\ mounted = TRUE
    /\ inflight = [s \in Submissions |-> Idle]
    /\ nSub = 0
    /\ done = NoneDone
    /\ received = Null
    /\ lastOk = Null
    /\ sims = <<>>
    /\ svgSim = 0
    /\ treeCleanup = 0
    /\ svgNodes = {}
    /\ drags = {}
    /\ svgLinks = <<>>
    /\ pins = {}
    /\ heatCells = <<>>
    /\ highlighted = Null

\* {showAttorneyModal && analysis && <AttorneyReferralModal .../>}
ModalVisible == showAttorneyModal /\ analysis # Null

\* variant: the button is disabled for blank input only
AnalyzeButtonDisabledBlankOnly == IsBlank(inputText)

\* disabled={loading || !inputText.trim()} of the analyze button
AnalyzeButtonDisabled == loading \/ IsBlank(inputText)

\* the handleAnalyze runs that are waiting for an HTTP call to settle
InFlight == {s \in Submissions : inflight[s].pc # "idle"}


(***************************************************************************)
(* LogicTreeVisualization: the useEffect keyed on [branchPoints,           *)
(* dependencies] and the d3 force simulation it creates.                   *)
(***************************************************************************)
\* simulation.stop() on simulation i (0: no cleanup was registered)
Stopped(ss, i) ==
    IF i = 0 THEN ss ELSE [ss EXCEPT ![i].running = FALSE]

\* d3.forceSimulation(nodes): starts its timer at once, alphaTarget 0
NewSimulation == [running |-> TRUE, alphaTarget |-> 0]

\* nodes = branchPoints.map(bp => ({id: bp.node_id, ...})): drawn circles
NodesOf(bps) == {bps[i].node_id : i \in DOMAIN bps}

\* nodes = branchPoints.map((bp) => ({id, label, criticality, type, x, y}))
Nodes(branchPoints) ==
    [i \in DOMAIN branchPoints |->
        [id |-> branchPoints[i].node_id,
         criticality |-> branchPoints[i].criticality_score,
         type |-> branchPoints[i].branch_type]]

\* nodes.find(n => n.id === id): the first match, or undefined
Find(nodes, id) ==
    LET hits == {i \in DOMAIN nodes : nodes[i].id = id} IN
    IF hits = {} THEN Null
    ELSE nodes[CHOOSE i \in hits : \A j \in hits : i <= j]

\* variant: a link is made for every dependency, resolved or not
LinksUnfiltered(nodes, dependencies) ==
    [i \in DOMAIN dependencies |->
        [source |-> dependencies[i].source_node_id,
         target |-> dependencies[i].target_node_id,
         strength |-> dependencies[i].strength,
         cascade |-> dependencies[i].cascade_potential]]

\* links = dependencies.map(dep => source && target ? {...} : null)
\*                     .filter(link => link !== null)
Links(nodes, dependencies) ==
    LET mapped ==
            [i \in DOMAIN dependencies |->
                LET source == Find(nodes, dependencies[i].source_node_id)
                    target == Find(nodes, dependencies[i].target_node_id)
                IN IF source # Null /\ target # Null
                   THEN [source |-> source.id, target |-> target.id,
                         strength |-> dependencies[i].strength,
                         cascade |-> dependencies[i].cascade_potential]
                   ELSE Null]
    IN SelectSeq(mapped, LAMBDA link : link # Null)

\* d3.forceLink(links).id(d => d.id), initialised by forceSimulation.force:
\* a link whose source or target id is no node's id throws "node not found"
TreeThrows(bps, dependencies) ==
    /\ Len(bps) > 0
    /\ LET nodes == Nodes(bps)
           links == Links(nodes, dependencies)
       IN \E k \in DOMAIN links :
             \/ Find(nodes, links[k].source) = Null
             \/ Find(nodes, links[k].target) = Null

\* the effect runs because the result object (hence both arrays) is new:
\* React first runs the cleanup the previous run returned, then the body
TreeEffect(bps, dependencies) ==
    IF Len(bps) = 0
    THEN \* early return: nothing cleared, nothing created, no cleanup returned
         /\ sims' = Stopped(sims, treeCleanup)
         /\ treeCleanup' = 0
         /\ UNCHANGED <<svgSim, svgNodes, svgLinks>>
    ELSE \* selectAll('*').remove(), new nodes, new simulation, cleanup returned
         /\ sims' = Append(Stopped(sims, treeCleanup), NewSimulation)
         /\ treeCleanup' = Len(sims) + 1
         /\ svgSim' = Len(sims) + 1
         /\ svgNodes' = NodesOf(bps)
         /\ svgLinks' = Links(Nodes(bps), dependencies)

\* the component unmounts: React runs the registered cleanup and drops the svg
TreeUnmount ==
    /\ sims' = Stopped(sims, treeCleanup)
    /\ treeCleanup' = 0
    /\ svgSim' = 0
    /\ svgNodes' = {}
    /\ svgLinks' = <<>>

(***************************************************************************)
(* RiskHeatmap: the useEffect keyed on [branchPoints, cascades].           *)
(* combinedRisk is held in thousandths: scores are percentages, and        *)
(* 0.6 * c + 0.4 * s becomes 6 * c + 4 * s.                                *)
(***************************************************************************)
\* variant: the severity of the first related cascade, not the largest
MaxOfFirstOnly(xs) == xs[1]

\* Math.max(...xs) of a non-empty list
MaxOf(xs) ==
    CHOOSE m \in {xs[i] : i \in DOMAIN xs} : \A i \in DOMAIN xs : xs[i] <= m

\* riskData = branchPoints.map((bp) => ({id, type, risk, cascadeCount}))
RiskData(branchPoints, cascades) ==
    [i \in DOMAIN branchPoints |->
        LET bp == branchPoints[i]
            relatedCascades ==
                SelectSeq(cascades,
                          LAMBDA c : c.initiating_branch_id = bp.branch_id)
            maxSeverity ==
                IF Len(relatedCascades) > 0
                THEN MaxOf([k \in DOMAIN relatedCascades |->
                               relatedCascades[k].severity_score])
                ELSE 0
            combinedRisk == (bp.criticality_score * 6) + (maxSeverity * 4)
        IN [id |-> bp.branch_id, type |-> bp.branch_type,
            risk |-> combinedRisk, cascadeCount |-> Len(relatedCascades)]]

\* types = Object.keys(typeGroups): the categories in order of first
\* appearance in riskData
RECURSIVE Types(_)
Types(riskData) ==
    IF riskData = <<>> THEN <<>>
    ELSE LET before == Types(SubSeq(riskData, 1, Len(riskData) - 1))
             type == riskData[Len(riskData)].type
         IN IF \E k \in DOMAIN before : before[k] = type
            THEN before ELSE Append(before, type)

\* typeGroups[type]: the items of one category, in riskData order
TypeGroup(riskData, type) ==
    SelectSeq(riskData, LAMBDA item : item.type = type)

\* the cells of row typeIdx (0-based), left to right
RowCells(items, typeIdx) ==
    [k \in DOMAIN items |->
        [id |-> items[k].id, type |-> items[k].type, risk |-> items[k].risk,
         typeIdx |-> typeIdx, itemIdx |-> k - 1]]

\* types.forEach((type, typeIdx) => items.forEach((item, itemIdx) => ...)):
\* the rect elements in the order they are appended
RECURSIVE CellsOfRows(_, _, _)
CellsOfRows(riskData, types, typeIdx) ==
    IF typeIdx >= Len(types) THEN <<>>
    ELSE RowCells(TypeGroup(riskData, types[typeIdx + 1]), typeIdx)
         \o CellsOfRows(riskData, types, typeIdx + 1)

Cells(branchPoints, cascades) ==
    LET riskData == RiskData(branchPoints, cascades) IN
    CellsOfRows(riskData, Types(riskData), 0)

\* the effect runs after a render with a new result object
HeatEffect(bps, cascades) ==
    IF Len(bps) = 0
    THEN \* early return: the svg keeps what it held
         UNCHANGED heatCells
    ELSE \* selectAll('*').remove(), then one rect per item
         heatCells' = Cells(bps, cascades)

\* the results section leaves the page: the svg and the list are gone
GridUnmount ==
    /\ heatCells' = <<>>
    /\ highlighted' = Null

(***************************************************************************)
(* CounterfactualDemo.handleAnalyze, one action per stretch between awaits.*)
(***************************************************************************)
\* variant: no validation of the input before the calls
handleAnalyzeNoValidation ==
    /\ mounted
    /\ nSub < MaxSubmissions
    /\ loading' = TRUE
    /\ error' = NoError
    /\ analysis' = Rendered(analysis)
    /\ nSub' = nSub + 1
    /\ inflight' = [inflight EXCEPT ![nSub + 1] =
           [pc |-> "extract", request |-> ExtractRequest(inputText),
            cirResponse |-> Null, calls |-> <<"extract">>,
            extractReply |-> Null]]
    /\ UNCHANGED <<inputText, showAttorneyModal, mounted, done>>
    /\ UNCHANGED <<histVars, treeVars, viewVars>>

\* from the call to the first await: validation, setLoading(true),
\* setError(null), and the extract POST is issued
handleAnalyze ==
    /\ mounted
    /\ IF IsBlank(inputText)
       THEN /\ error' = ValidationMessage
            /\ analysis' = Rendered(analysis)
            /\ UNCHANGED <<inputText, loading, showAttorneyModal, mounted>>
            /\ UNCHANGED <<netVars, histVars, treeVars, viewVars>>
       ELSE /\ nSub < MaxSubmissions
            /\ loading' = TRUE
            /\ error' = NoError
            /\ analysis' = Rendered(analysis)
            /\ nSub' = nSub + 1
            /\ inflight' = [inflight EXCEPT ![nSub + 1] =
                   [pc |-> "extract", request |-> ExtractRequest(inputText),
                    cirResponse |-> Null, calls |-> <<"extract">>,
                    extractReply |-> Null]]
            /\ UNCHANGED <<inputText, showAttorneyModal, mounted, done>>
            /\ UNCHANGED <<histVars, treeVars, viewVars>>

\* the extract POST resolved with body g: the analyze POST is issued
ExtractResolved(s, g) ==
    /\ inflight[s].pc = "extract"
    /\ LET cirResponse == [data |-> g] IN
       inflight' = [inflight EXCEPT ![s] =
           [pc |-> "analyze", request |-> AnalyzeRequest(cirResponse),
            cirResponse |-> cirResponse,
            calls |-> Append(@.calls, "analyze"),
            extractReply |-> g]]
    /\ UNCHANGED <<reactVars, nSub, done, histVars, treeVars,
                   viewVars>>

\* what is remembered of run s when it ends: how it ended, the calls it
\* issued, what the extract call answered and the analyze request it sent
Summary(s, outcome) ==
    [outcome |-> outcome, calls |-> inflight[s].calls,
     extractReply |-> inflight[s].extractReply,
     request |-> IF inflight[s].pc = "analyze" THEN inflight[s].request
                 ELSE Null]

\* variant: the catch also drops the held result
CallRejectedClearsResult(s, err, outcome) ==
    /\ error' = ErrorMessage(err)
    /\ loading' = FALSE
    /\ analysis' = Null
    /\ done' = Summary(s, outcome)
    /\ inflight' = [inflight EXCEPT ![s] = Idle]
    /\ UNCHANGED <<inputText, showAttorneyModal, mounted, nSub>>
    /\ UNCHANGED <<histVars, treeVars, viewVars>>

\* variant: setLoading(false) sits at the end of the try block, not in a
\* finally, so a rejected call leaves the busy flag set
CallRejectedNoFinally(s, err, outcome) ==
    /\ error' = ErrorMessage(err)
    /\ analysis' = Rendered(analysis)
    /\ done' = Summary(s, outcome)
    /\ inflight' = [inflight EXCEPT ![s] = Idle]
    /\ UNCHANGED <<inputText, loading, showAttorneyModal, mounted, nSub>>
    /\ UNCHANGED <<histVars, treeVars, viewVars>>

\* catch + finally after an awaited POST rejected with err
CallRejected(s, err, outcome) ==
    /\ IF mounted
       THEN /\ error' = ErrorMessage(err)
            /\ loading' = FALSE
            /\ analysis' = Rendered(analysis)
       ELSE UNCHANGED <<error, loading, analysis>>
    /\ done' = Summary(s, outcome)
    /\ inflight' = [inflight EXCEPT ![s] = Idle]
    /\ UNCHANGED <<inputText, showAttorneyModal, mounted, nSub>>
    /\ UNCHANGED <<histVars, treeVars, viewVars>>

\* variant: a rejected extract call is swallowed and the analyze POST is
\* issued all the same, with an undefined cir_graph
ExtractRejectedSwallowed(s, err) ==
    /\ inflight[s].pc = "extract"
    /\ inflight' = [inflight EXCEPT ![s] =
           [pc |-> "analyze", request |-> AnalyzeRequest([data |-> Null]),
            cirResponse |-> [data |-> Null],
            calls |-> Append(@.calls, "analyze"),
            extractReply |-> Null]]
    /\ UNCHANGED <<reactVars, nSub, done, histVars, treeVars,
                   viewVars>>

ExtractRejected(s, err) ==
    /\ inflight[s].pc = "extract"
    /\ CallRejected(s, err, "extract_failed")

AnalyzeRejected(s, err) ==
    /\ inflight[s].pc = "analyze"
    /\ CallRejected(s, err, "analyze_failed")

\* the analyze POST resolved with body `result`: setAnalysis(result); reading
\* result.attorney_referral.triggered throws a TypeError when result is null
\* or has no attorney_referral, which the catch turns into an error message;
\* the finally clears the busy flag; React then renders and runs the effects
\* of the views.  An exception thrown by the render or by an effect unmounts
\* the React tree.
AnalyzeResolved(s, result) ==
    /\ inflight[s].pc = "analyze"
    /\ LET threw == result = Null \/ result.attorney_referral = Null
           \* line 372 reads analysis.attorney_referral.triggered while rendering
           crashes ==
               /\ result # Null
               /\ \/ result.attorney_referral = Null
                  \/ TreeThrows(result.branch_points, result.dependencies)
       IN
       /\ done' = Summary(s, IF threw THEN "threw" ELSE "ok")
       /\ inflight' = [inflight EXCEPT ![s] = Idle]
       /\ IF mounted
          THEN /\ analysis' = IF crashes THEN result ELSE Rendered(result)
               /\ showAttorneyModal' =
                    IF ~threw /\ result.attorney_referral.triggered
                    THEN TRUE ELSE showAttorneyModal
               /\ error' = IF threw THEN ErrorMessage(TypeError) ELSE error
               /\ loading' = FALSE
               /\ mounted' = ~crashes
               /\ received' = result
               /\ lastOk' = IF threw THEN lastOk ELSE result
               /\ IF crashes \/ result = Null
                  THEN TreeUnmount /\ GridUnmount
                  ELSE /\ highlighted' = HighlighterItems(result.branch_points)
                       /\ TreeEffect(Rendered(result).branch_points,
                                     result.dependencies)
                       /\ HeatEffect(Rendered(result).branch_points,
                                     result.cascades)
               /\ UNCHANGED <<inputText, nSub, drags, pins>>
          ELSE UNCHANGED <<reactVars, nSub, histVars, treeVars, viewVars>>

(***************************************************************************)
(* The other handlers of CounterfactualDemo.                               *)
(***************************************************************************)
\* click (or keyboard activation) of the analyze button
ClickAnalyze ==
    /\ ~AnalyzeButtonDisabled
    /\ handleAnalyze

\* onChange of the textarea, which is disabled while loading
ChangeInput(t) ==
    /\ mounted
    /\ ~loading
    /\ inputText' = t
    /\ analysis' = Rendered(analysis)
    /\ UNCHANGED <<loading, error, showAttorneyModal, mounted>>
    /\ UNCHANGED <<netVars, histVars, treeVars, viewVars>>

\* variant: loading the sample also clears the error message
loadSampleCaseClearsError ==
    /\ mounted
    /\ inputText' = sampleNarrative
    /\ error' = NoError
    /\ analysis' = Rendered(analysis)
    /\ UNCHANGED <<loading, showAttorneyModal, mounted>>
    /\ UNCHANGED <<netVars, histVars, treeVars, viewVars>>

\* onClick of the sample button, which is never disabled
loadSampleCase ==
    /\ mounted
    /\ inputText' = sampleNarrative
    /\ analysis' = Rendered(analysis)
    /\ UNCHANGED <<loading, error, showAttorneyModal, mounted>>
    /\ UNCHANGED <<netVars, histVars, treeVars, viewVars>>

\* onClose of AttorneyReferralModal: () => setShowAttorneyModal(false)
onClose ==
    /\ mounted
    /\ ModalVisible
    /\ showAttorneyModal' = FALSE
    /\ analysis' = Rendered(analysis)
    /\ UNCHANGED <<inputText, loading, error, mounted>>
    /\ UNCHANGED <<netVars, histVars, treeVars, viewVars>>

(***************************************************************************)
(* AttorneyReferralModal: a click is dispatched to the element under the   *)
(* pointer and bubbles through its ancestors until a handler stops it.     *)
(***************************************************************************)
\* where a click can land: the overlay outside the content box, the content
\* box outside its buttons, the close button, the "I Understand" button
ModalTargets == {"modal-overlay", "modal-content", "close-button", "primary-button"}

\* the clicked element followed by its ancestors that carry an onClick
ModalPath(target) ==
    CASE target = "modal-overlay" -> <<"modal-overlay">>
      [] target = "modal-content" -> <<"modal-content", "modal-overlay">>
      [] target = "close-button" ->
             <<"close-button", "modal-content", "modal-overlay">>
      [] target = "primary-button" ->
             <<"primary-button", "modal-content", "modal-overlay">>

\* variant: the content box passes its clicks on to the overlay
ModalHandlerContentPropagates(element) ==
    IF element = "modal-content" THEN "none" ELSE "onClose"

\* onClick of each element: onClose, or (e) => e.stopPropagation()
ModalHandler(element) ==
    IF element = "modal-content" THEN "stopPropagation" ELSE "onClose"

\* how many times onClose is called while the click bubbles along path
RECURSIVE OnCloseCalls(_)
OnCloseCalls(path) ==
    IF path = <<>> THEN 0
    ELSE IF ModalHandler(Head(path)) = "stopPropagation" THEN 0
    ELSE (IF ModalHandler(Head(path)) = "onClose" THEN 1 ELSE 0)
         + OnCloseCalls(Tail(path))

\* a click on the open modal
ClickModal(target) ==
    /\ mounted
    /\ ModalVisible
    /\ IF OnCloseCalls(ModalPath(target)) > 0
       THEN onClose
       ELSE UNCHANGED vars

(***************************************************************************)
(* LogicTreeVisualization: d3.drag handlers on the drawn nodes, and the    *)
(* simulation's own timer.  event.active is the number of other gestures   *)
(* of the same drag behaviour that are active.  The modal overlay covers   *)
(* the viewport, so no pointer reaches the svg while the modal is shown.   *)
(* A gesture is (simulation, node id, touch): the datum it drags and which *)
(* of the pointers on that datum it is.                                    *)
(***************************************************************************)
OtherGestures(d) == {e \in drags : e.sim = d.sim /\ e # d}

\* the node data (simulation, node id) that some active gesture holds
DraggedNodes == {[sim |-> d.sim, node |-> d.node] : d \in drags}

\* where a pointer can be during a gesture
PointerPositions == {"p", "q"}

\* d.fx = null; d.fy = null on node `node` of simulation `sim`
Unpinned(ps, sim, node) == {p \in ps : ~(p.sim = sim /\ p.node = node)}

\* d.fx = ...; d.fy = ... : at is "d.x" (the node's own position) or a
\* pointer position
Pinned(ps, sim, node, at) ==
    Unpinned(ps, sim, node) \cup {[sim |-> sim, node |-> node, at |-> at]}

\* .on('start') for gesture `touch` on the drawn node n:
\* if (!event.active) simulation.alphaTarget(0.3).restart();
\* d.fx = d.x; d.fy = d.y
dragstarted(n, touch) ==
    /\ ~ModalVisible
    /\ n \in svgNodes
    /\ LET d == [sim |-> svgSim, node |-> n, touch |-> touch] IN
       /\ d \notin drags
       /\ drags' = drags \cup {d}
       /\ sims' = IF OtherGestures(d) = {}
                  THEN [sims EXCEPT ![svgSim] =
                           [running |-> TRUE, alphaTarget |-> 30]]
                  ELSE sims
       /\ pins' = Pinned(pins, svgSim, n, "d.x")
    /\ UNCHANGED <<reactVars, netVars, histVars, viewVars, svgSim, treeCleanup,
                   svgNodes, svgLinks>>

\* a pointer goes down on a node that no gesture holds
DragStart(n) ==
    /\ [sim |-> svgSim, node |-> n] \notin DraggedNodes
    /\ Cardinality(DraggedNodes) < MaxPointers
    /\ dragstarted(n, 1)

\* a further touch goes down on a node that a gesture already holds: d3-drag
\* starts one gesture per touch identifier, with the same datum as subject
TouchAgain(n, touch) ==
    /\ [sim |-> svgSim, node |-> n] \in DraggedNodes
    /\ dragstarted(n, touch)

\* .on('drag'): d.fx = event.x; d.fy = event.y
DragMove(d, at) ==
    /\ d \in drags
    /\ pins' = Pinned(pins, d.sim, d.node, at)
    /\ UNCHANGED <<reactVars, netVars, histVars, viewVars, sims, svgSim,
                   treeCleanup, svgNodes, drags, svgLinks>>

\* .on('end'): if (!event.active) simulation.alphaTarget(0);
\* d.fx = null; d.fy = null
DragEnd(d) ==
    /\ d \in drags
    /\ drags' = drags \ {d}
    /\ sims' = IF OtherGestures(d) = {}
               THEN [sims EXCEPT ![d.sim].alphaTarget = 0]
               ELSE sims
    /\ pins' = Unpinned(pins, d.sim, d.node)
    /\ UNCHANGED <<reactVars, netVars, histVars, viewVars, svgSim, treeCleanup,
                   svgNodes, svgLinks>>

\* the simulation's timer: with alphaTarget 0, alpha decays below alphaMin
\* and the simulation stops itself; with alphaTarget 0.3 it never does
SimulationSettles(i) ==
    /\ i \in DOMAIN sims
    /\ sims[i].running
    /\ sims[i].alphaTarget = 0
    /\ sims' = [sims EXCEPT ![i].running = FALSE]
    /\ UNCHANGED <<reactVars, netVars, histVars, viewVars, svgSim, treeCleanup,
                   svgNodes, drags, svgLinks, pins>>

(***************************************************************************)
(* Specifications.                                                         *)
(***************************************************************************)
NodeIds == {bp.node_id : bp \in BranchPool}

\* an HTTP call that was issued settles
NetworkSettles ==
    \/ \E s \in Submissions, g \in CirGraphs : ExtractResolved(s, g)
    \/ \E s \in Submissions, e \in Errors : ExtractRejected(s, e)
    \/ \E s \in Submissions, r \in AnalysisBodies : AnalyzeResolved(s, r)
    \/ \E s \in Submissions, e \in Errors : AnalyzeRejected(s, e)

UserActs ==
    \/ ClickAnalyze
    \/ \E t \in Texts : ChangeInput(t)
    \/ loadSampleCase
    \/ \E t \in ModalTargets : ClickModal(t)
    \/ \E n \in NodeIds : DragStart(n)
    \/ \E d \in drags : DragEnd(d)

Next ==
    \/ UserActs
    \/ NetworkSettles
    \/ \E i \in DOMAIN sims : SimulationSettles(i)

\* the application driven through its user interface
Spec == Init /\ [][Next]_vars

\* the same, where every issued HTTP call eventually resolves or rejects
FairSpec == Spec /\ WF_vars(NetworkSettles)

\* handleAnalyze entered with blank input.  The analyze button is disabled
\* for such input, so only a caller that does not go through the button
\* (a test driving the handler) gets here.
SubmitBlank ==
    /\ IsBlank(inputText)
    /\ handleAnalyze

NextHandler == Next \/ SubmitBlank

SpecHandler == Init /\ [][NextHandler]_vars

\* the application driven with the sample narrative and answered with the
\* results of GridBodies: what the views of the analysis grid draw
NextGrid ==
    \/ loadSampleCase
    \/ ClickAnalyze
    \/ \E s \in Submissions, g \in CirGraphs : ExtractResolved(s, g)
    \/ \E s \in Submissions, r \in GridBodies : AnalyzeResolved(s, r)

SpecGrid == Init /\ [][NextGrid]_vars

\* the application on a touch screen: several touches can hold one node, and
\* the pointers move while they hold it
NextDrag ==
    \/ Next
    \/ \E n \in NodeIds, touch \in 2..MaxTouches : TouchAgain(n, touch)
    \/ \E d \in drags, at \in PointerPositions : DragMove(d, at)

SpecDrag == Init /\ [][NextDrag]_vars

(***************************************************************************)
(* Properties.                                                             *)
(***************************************************************************)
\* run s ends in this step
Ends(s) == inflight[s].pc # "idle" /\ inflight'[s].pc = "idle"

Failures == {"extract_failed", "analyze_failed"}

RunningSims == {i \in DOMAIN sims : sims[i].running}

\* C1: the two HTTP calls of a submission are strictly sequential: an analyze
\* call is only ever issued by a run whose extract call has resolved (the
\* extract call comes first and has an answer), and a run whose extract call
\* failed has issued the extract call and nothing else.
C1_CallsSequential ==
    /\ \A s \in Submissions :
          /\ inflight[s].calls \in {<<>>, <<"extract">>, <<"extract", "analyze">>}
          /\ inflight[s].calls = <<"extract", "analyze">>
                => inflight[s].extractReply \in CirGraphs
          /\ inflight[s].pc = "extract" => inflight[s].calls = <<"extract">>
    /\ done.outcome = "extract_failed" => done.calls = <<"extract">>
    /\ done.outcome \in {"analyze_failed", "ok", "threw"}
          => done.calls = <<"extract", "analyze">> /\ done.extractReply \in CirGraphs

\* a submission failed at its extract call without an analyze call, and a
\* later one has its analyze call in flight after its extract call resolved
C1_Witness ==
    /\ done.outcome = "extract_failed"
    /\ \E s \in Submissions : inflight[s].pc = "analyze"

\* C2: when a rejected extract or analyze call ends a submission, the held
\* result is what it was (it does not change in that step, nor in any step
\* taken while the submission was pending), and an error message is set.
C2_FailureKeepsResult ==
    [][ /\ (\E s \in Submissions : Ends(s) /\ done'.outcome \in Failures)
            => (analysis' = analysis /\ error' # NoError)
        /\ (InFlight # {} /\ InFlight' # {}) => analysis' = analysis ]_vars

\* a submission has failed while a previous result was held
C2_Witness ==
    /\ done.outcome \in Failures
    /\ InFlight = {}
    /\ analysis # Null
    /\ error # NoError

\* C3: an accepted submission sets the busy flag (it goes up exactly when a
\* run starts), the flag goes down exactly in the step in which the run ends,
\* whatever the outcome, it is never set while no run is pending, and if the
\* issued calls settle it always goes down again.
C3_BusyClearedOnce ==
    /\ [](loading <=> InFlight # {})
    /\ [][ /\ (loading /\ ~loading') <=> (\E s \in Submissions : Ends(s))
           /\ (~loading /\ loading') <=> (InFlight = {} /\ InFlight' # {}) ]_vars
    /\ (loading ~> ~loading)

\* the busy flag is down after a failed submission that followed others
C3_Witness ==
    /\ ~loading
    /\ done.outcome = "analyze_failed"
    /\ nSub >= 2

\* C4: when a successful result is applied, the modal is visible right
\* afterwards if and only if that result's attorney_referral.triggered is true.
C4_ModalIffTriggered ==
    [][ (\E s \in Submissions : Ends(s) /\ done'.outcome = "ok")
            => (ModalVisible' <=> received'.attorney_referral.triggered) ]_vars

\* C5: handleAnalyze reached with blank input issues no call, sets the fixed
\* validation message and leaves busy flag, held result and modal flag alone.
C5_BlankSubmitRejected ==
    [][ SubmitBlank
            => /\ error' = ValidationMessage
               /\ inflight' = inflight /\ nSub' = nSub
               /\ loading' = loading
               /\ analysis' = analysis
               /\ showAttorneyModal' = showAttorneyModal ]_vars

\* the validation message is shown over a held result with the modal flag set
C5_Witness ==
    /\ error = ValidationMessage
    /\ analysis # Null
    /\ showAttorneyModal
    /\ IsBlank(inputText)

\* C6: at most one submission is pending at any time, and while one is
\* pending the busy flag is set and the analyze button is disabled.
C6_SingleFlight ==
    /\ Cardinality(InFlight) <= 1
    /\ InFlight # {} => (loading /\ AnalyzeButtonDisabled)

\* a second submission is pending after the first has completed
C6_Witness ==
    /\ nSub >= 2
    /\ InFlight # {}
    /\ done.outcome = "ok"

\* C7: the branch_points, dependencies and cascades lists of the held result
\* are the lists of the backend response it came from, in the same order.
C7_ResultNotMutated ==
    (mounted /\ analysis # Null) =>
        /\ analysis.branch_points = received.branch_points
        /\ analysis.dependencies = received.dependencies
        /\ analysis.cascades = received.cascades

\* C8: the analyze request of a run carries exactly the body the extract call
\* of that run answered with, and the fixed options 10 / 5 / 0.7.
C8_CirGraphPassedThrough ==
    LET Good(request, reply) ==
            /\ request.url = "/api/counterfactual/analyze"
            /\ request.body.cir_graph = reply
            /\ request.body.options.max_branch_points = 10
            /\ request.body.options.max_cascades = 5
            /\ request.body.options.complexity_threshold = 70
    IN  /\ \A s \in Submissions :
              inflight[s].pc = "analyze"
                  => Good(inflight[s].request, inflight[s].extractReply)
        /\ done.outcome = "ok" => Good(done.request, done.extractReply)

\* a two-call sequence succeeded on the second extract answer
C8_Witness ==
    /\ done.outcome = "ok"
    /\ done.extractReply = [cir_id |-> "g2"]

\* C9: the held result is null before the first success and afterwards
\* exactly the response of the most recent successful submission.
C9_ResultIsLastResponse == mounted => analysis = lastOk

\* C10: at most one force simulation is running at any time.
C10_OneSimulation == Cardinality(RunningSims) <= 1

\* the latest analyze response was well formed, so the results section shows it
Shown == received # Null /\ received.attorney_referral # Null

\* C11: LogicTreeVisualization draws exactly one node per branch point and
\* exactly one edge per dependency whose source_node_id and target_node_id
\* are both the node_id of some branch point, in the order of the
\* dependencies list; a dependency with an unmatched end gives no edge, and
\* drawing raises no error (the application stays mounted).
C11_NodesAndResolvedEdges ==
    Shown =>
       /\ mounted
       /\ Len(received.branch_points) > 0 =>
            LET bps == received.branch_points
                ids == {bps[i].node_id : i \in DOMAIN bps}
                resolved ==
                    SelectSeq(received.dependencies,
                              LAMBDA dep : /\ dep.source_node_id \in ids
                                           /\ dep.target_node_id \in ids)
            IN /\ svgNodes = ids
               /\ Cardinality(svgNodes) = Len(bps)
               /\ Len(svgLinks) = Len(resolved)
               /\ \A k \in DOMAIN svgLinks :
                     /\ svgLinks[k].source = resolved[k].source_node_id
                     /\ svgLinks[k].target = resolved[k].target_node_id

\* a result with an unresolved dependency before a resolved one was drawn:
\* one edge for two dependencies
C11_Witness ==
    /\ Shown
    /\ mounted
    /\ Len(received.dependencies) = 2
    /\ received.dependencies[1].source_node_id \notin svgNodes
    /\ Len(received.branch_points) = 3
    /\ Len(svgLinks) = 1
    /\ svgLinks[1].source = "n1"
    /\ svgLinks[1].target = "n2"

\* the largest severity_score among the cascades that start at branch point
\* id, 0 when there is none
MaxCascadeSeverity(cascades, id) ==
    LET severities == {cascades[k].severity_score :
                          k \in {j \in DOMAIN cascades :
                                    cascades[j].initiating_branch_id = id}}
    IN IF severities = {} THEN 0
       ELSE CHOOSE m \in severities : \A x \in severities : x <= m

\* C12: for every branch point of a drawn result, the heatmap holds exactly
\* one cell with its branch_id, and that cell's combinedRisk (in thousandths)
\* is 6 * criticality_score + 4 * maxCascadeSeverity, where
\* maxCascadeSeverity is the largest severity_score of the cascades whose
\* initiating_branch_id is this branch_id, and 0 without such a cascade.
C12_CombinedRisk ==
    (Shown /\ Len(received.branch_points) > 0) =>
        \A i \in DOMAIN received.branch_points :
            LET bp == received.branch_points[i]
                mine == {k \in DOMAIN heatCells : heatCells[k].id = bp.branch_id}
            IN /\ Cardinality(mine) = 1
               /\ \A k \in mine :
                     heatCells[k].risk =
                         6 * bp.criticality_score
                         + 4 * MaxCascadeSeverity(received.cascades, bp.branch_id)

\* drawn: b1, whose larger cascade (1.0) comes after its smaller one (0.4),
\* at 0.6 * 0.5 + 0.4 * 1.0 = 0.7, and b2, which starts no cascade, at
\* 0.6 * 0.9 = 0.54
C12_Witness ==
    /\ Shown
    /\ Len(received.cascades) = 3
    /\ received.cascades[1].severity_score < received.cascades[2].severity_score
    /\ \E k \in DOMAIN heatCells :
          heatCells[k].id = "b1" /\ heatCells[k].risk = 700
    /\ \E k \in DOMAIN heatCells :
          heatCells[k].id = "b2" /\ heatCells[k].risk = 540

\* the place of the branch point with this branch_id in the list as received
InputIndex(id) ==
    CHOOSE i \in DOMAIN received.branch_points :
        received.branch_points[i].branch_id = id

\* C13: the items BranchPointHighlighter renders are a permutation of the
\* input list (the branch_points as received), in non-increasing
\* criticality_score order, items of equal score in their input order; for
\* an empty input the component renders the "no branch points" paragraph.
C13_SortedStablePermutation ==
    Shown =>
       /\ highlighted # Null
       /\ highlighted.noBranches <=> Len(received.branch_points) = 0
       /\ LET items == highlighted.items
              input == received.branch_points
          IN /\ Len(items) = Len(input)
             /\ {items[i].key : i \in DOMAIN items}
                    = {input[i].branch_id : i \in DOMAIN input}
             /\ \A i \in DOMAIN items :
                   items[i].criticality_score
                       = input[InputIndex(items[i].key)].criticality_score
             /\ \A i, j \in DOMAIN items :
                   i < j =>
                     \/ items[i].criticality_score > items[j].criticality_score
                     \/ /\ items[i].criticality_score = items[j].criticality_score
                        /\ InputIndex(items[i].key) < InputIndex(items[j].key)

\* rendered: a list received as b1 (0.5), b3 (0.9), b2 (0.9), shown as
\* b3, b2, b1
C13_Witness ==
    /\ Shown
    /\ Len(received.branch_points) = 3
    /\ received.branch_points[1].branch_id = "b1"
    /\ received.branch_points[2].branch_id = "b3"
    /\ received.branch_points[3].branch_id = "b2"
    /\ highlighted # Null
    /\ Len(highlighted.items) = 3
    /\ highlighted.items[1].key = "b3"
    /\ highlighted.items[2].key = "b2"
    /\ highlighted.items[3].key = "b1"

\* C14: RiskHeatmap puts each branch point in the row of its category (one
\* row per category), and within a row the cells stand left to right in the
\* relative order their branch points have in the branch_points list of the
\* analysis result as received, also when CounterfactualDemo renders the
\* heatmap next to the other views.
C14_RowsInInputOrder ==
    (Shown /\ Len(received.branch_points) > 0) =>
        /\ \A k \in DOMAIN heatCells :
              heatCells[k].type
                  = received.branch_points[InputIndex(heatCells[k].id)].branch_type
        /\ \A k1, k2 \in DOMAIN heatCells :
              /\ (heatCells[k1].typeIdx = heatCells[k2].typeIdx)
                    <=> (heatCells[k1].type = heatCells[k2].type)
              /\ ( /\ heatCells[k1].typeIdx = heatCells[k2].typeIdx
                   /\ heatCells[k1].itemIdx < heatCells[k2].itemIdx )
                    => InputIndex(heatCells[k1].id) < InputIndex(heatCells[k2].id)

\* C15: a click on the open modal closes it when it lands on the
\* acknowledgement button, on the close button or on the overlay outside the
\* content box, and leaves it open when it lands inside the content box
\* elsewhere; in every case the held result, the error message, the busy
\* flag and the input text stay as they were.
C15_ModalClicks ==
    [][ \A t \in ModalTargets :
          ClickModal(t) =>
             /\ showAttorneyModal' = (t = "modal-content")
             /\ UNCHANGED <<analysis, error, loading, inputText>> ]_vars

\* a result that asked for the referral is held and its modal has been
\* closed, with a later submission in flight
C15_Witness ==
    /\ mounted
    /\ analysis # Null
    /\ analysis.attorney_referral.triggered
    /\ ~showAttorneyModal
    /\ Len(analysis.branch_points) = 2
    /\ loading

\* C16: the load-sample action sets the input text to the fixed sample
\* narrative whatever the state before, issues no HTTP call (no submission
\* starts or advances), and leaves the held result, the error message, the
\* busy flag and the modal flag as they were.
C16_LoadSampleFrame ==
    [][ loadSampleCase =>
          /\ inputText' = sampleNarrative
          /\ UNCHANGED <<analysis, error, loading, showAttorneyModal>>
          /\ UNCHANGED <<inflight, nSub>> ]_vars

\* the sample was loaded while a submission of another text was waiting for
\* its extract call and an earlier result was on display
C16_Witness ==
    /\ inputText = sampleNarrative
    /\ loading
    /\ analysis # Null
    /\ \E s \in Submissions :
          /\ inflight[s].pc = "extract"
          /\ inflight[s].request.body.narrative = <<"x">>

\* C17: a node of LogicTreeVisualization is pinned (fx / fy set) exactly
\* while it is being dragged: the pinned node data are the node data that
\* an active drag gesture holds.
C17_PinnedWhileDragged ==
    {[sim |-> p.sim, node |-> p.node] : p \in pins} = DraggedNodes

\* C18: a submission that ends with an error message set leaves the held
\* result and the modal flag as they were; a submission never both replaces
\* the held result and reports an error.
C18_ErrorKeepsResult ==
    [][ \A s \in Submissions :
          (Ends(s) /\ error' # NoError) =>
             /\ analysis' = analysis
             /\ showAttorneyModal' = showAttorneyModal ]_vars

\* the simulations whose effect cleanup has run: every simulation but the
\* one the registered cleanup will stop
TornDown == {i \in DOMAIN sims : i # treeCleanup}

\* C19: a simulation that the effect cleanup has torn down never runs again.
C19_TornDownStaysStopped == \A i \in TornDown : ~sims[i].running

\* C20: whenever a result is held and displayed, the nodes and edges in the
\* svg of LogicTreeVisualization and the cells in the svg of RiskHeatmap are
\* those of the held result's branch points, none of an earlier result;
\* with zero branch points both are empty.
C20_DrawnFromCurrentResult ==
    (mounted /\ analysis # Null) =>
        LET bps == analysis.branch_points IN
        /\ svgNodes = NodesOf(bps)
        /\ \A k \in DOMAIN svgLinks :
              svgLinks[k].source \in NodesOf(bps) /\ svgLinks[k].target \in NodesOf(bps)
        /\ {heatCells[k].id : k \in DOMAIN heatCells}
               = {bps[i].branch_id : i \in DOMAIN bps}

=============================================================================
